---- MODULE Spec2Model ----
(***************************************************************************)
(* Model of the move-only Buffer class of move-only-buffer.cpp: its        *)
(* constructors, move operations and destructor over an explicit heap of   *)
(* allocations, and the free functions that take a Buffer by value, by     *)
(* reference, by const reference and by r-value reference.                 *)
(*                                                                         *)
(* A Buffer object lives in a storage slot (a stack variable, a parameter  *)
(* or a temporary).  live[s] tells whether an object's lifetime is running *)
(* in slot s; data_[s] and size_[s] are the members of that object.  Every  *)
(* call of operator new yields a fresh allocation id, and released[a]      *)
(* counts the calls of operator delete on allocation a.  last names the    *)
(* statement executed last, its operands and what it printed.              *)
(***************************************************************************)
EXTENDS Integers, Sequences, FiniteSets, TLC

\* ------------------------------------------------------------------ bounds
NumSlots == 3
MaxAllocs == 2
MaxSize == 0

Slot == 1..NumSlots
Alloc == 1..MaxAllocs
NULL == 0
Ptr == {NULL} \cup Alloc

\* ------------------------------------------------------------- C strings
NUL == "NUL"
buffer1 == <<"b", "u", "f", "f", "e", "r", "1", NUL>>
buffer3 == <<"b", "u", "f", "f", "e", "r", "3", NUL>>
Texts == {buffer1, buffer3}

\* bytes an uninitialised allocation may hold
GarbageByte == {"x", "y"}
Garbage(n) == [1..n -> GarbageByte]

RECURSIVE strlenFrom(_, _)
strlenFrom(str, i) == IF str[i + 1] = NUL THEN i ELSE strlenFrom(str, i + 1)
strlen(str) == strlenFrom(str, 0)

\* the sizes a Buffer of the model can have
Sizes == (0..MaxSize) \cup {strlen(str) : str \in Texts}

VARIABLES data_, size_, live, released, nallocs, content, last
vars == <<data_, size_, live, released, nallocs, content, last>>

\* the memory the member functions read and write, as one value
World == [data |-> data_, size |-> size_, rel |-> released,
          n |-> nallocs, content |-> content]

Commit(W) ==
    /\ data_' = W.data
    /\ size_' = W.size
    /\ released' = W.rel
    /\ nallocs' = W.n
    /\ content' = W.content

NoText == <<>>
Record(op, kind, cat, a, b, text, msg) ==
    last' = [op |-> op, kind |-> kind, cat |-> cat, a |-> a, b |-> b,
             text |-> text, msg |-> msg]

\* ------------------------------------------------------ class Buffer
\* operator delete(p): releasing the null pointer does nothing; the bytes of
\* a released allocation are gone
OperatorDelete(W, p) ==
    IF p = NULL THEN W ELSE [W EXCEPT !.rel[p] = @ + 1, !.content[p] = <<>>]

\* explicit Buffer(size_t n), the new bytes holding g
BufferSize(W, s, n, g) ==
    LET a == W.n + 1
    IN  [W EXCEPT !.n = a, !.data[s] = a, !.size[s] = n, !.content[a] = g]

\* explicit Buffer(const char* str): delegates to Buffer(strlen(str)), then
\* std::copy overwrites every byte of the new allocation
BufferText(W, s, str) ==
    LET n == strlen(str)
        W1 == BufferSize(W, s, n, [i \in 1..n |-> "x"])
    IN  [W1 EXCEPT !.content[W1.data[s]] = [i \in 1..W1.size[s] |-> str[i]]]

\* variants of the move constructor: other.data_ is not reset; other.size_ is
\* not reset; the members are exchanged instead
MoveCtorKeepsData(W, d, s) ==
    LET W1 == [W EXCEPT !.data[d] = W.data[s], !.size[d] = W.size[s]]
    IN  [W1 EXCEPT !.size[s] = 0]

MoveCtorKeepsSize(W, d, s) ==
    LET W1 == [W EXCEPT !.data[d] = W.data[s], !.size[d] = W.size[s]]
    IN  [W1 EXCEPT !.data[s] = NULL]

MoveCtorSwaps(W, d, s) ==
    [W EXCEPT !.data[d] = W.data[s], !.size[d] = W.size[s],
              !.data[s] = W.data[d], !.size[s] = W.size[d]]

\* Buffer(Buffer&& other), this = d, &other = s
BufferMoveCtor(W, d, s) ==
    LET W1 == [W EXCEPT !.data[d] = W.data[s], !.size[d] = W.size[s]]
        W2 == [W1 EXCEPT !.data[s] = NULL]
    IN  [W2 EXCEPT !.size[s] = 0]

\* variants of the move assignment: the old buffer is not deleted; the test
\* for self-assignment is missing
MoveAssignLeaks(W, d, s) ==
    IF d = s
    THEN W
    ELSE LET W2 == [W EXCEPT !.data[d] = W.data[s]]
             W3 == [W2 EXCEPT !.size[d] = W2.size[s]]
             W4 == [W3 EXCEPT !.data[s] = NULL]
         IN  [W4 EXCEPT !.size[s] = 0]

MoveAssignUnguarded(W, d, s) ==
    LET W1 == OperatorDelete(W, W.data[d])
        W2 == [W1 EXCEPT !.data[d] = W1.data[s]]
        W3 == [W2 EXCEPT !.size[d] = W2.size[s]]
        W4 == [W3 EXCEPT !.data[s] = NULL]
    IN  [W4 EXCEPT !.size[s] = 0]

\* Buffer& operator=(Buffer&& other), this = d, &other = s
BufferMoveAssign(W, d, s) ==
    IF d = s
    THEN W
    ELSE LET W1 == OperatorDelete(W, W.data[d])
             W2 == [W1 EXCEPT !.data[d] = W1.data[s]]
             W3 == [W2 EXCEPT !.size[d] = W2.size[s]]
             W4 == [W3 EXCEPT !.data[s] = NULL]
         IN  [W4 EXCEPT !.size[s] = 0]

\* variant of the destructor that deletes nothing
DtorLeaks(W, s) == W

\* ~Buffer()
BufferDtor(W, s) == OperatorDelete(W, W.data[s])

\* The storage of an object whose lifetime has ended holds indeterminate
\* bytes.  The model keeps one representative value there and lets every
\* read of such storage (MoveConstructSelf) see an arbitrary value instead.
Reclaim(W, s) == [W EXCEPT !.data[s] = NULL, !.size[s] = 0]

\* std::string to_string() const
to_string(W, s) == [i \in 1..W.size[s] |-> W.content[W.data[s]][i]]

\* ------------------------------------------------------------ state machine
Init ==
    /\ data_ = [s \in Slot |-> NULL]
    /\ size_ = [s \in Slot |-> 0]
    /\ live = [s \in Slot |-> FALSE]
    /\ released = [a \in Alloc |-> 0]
    /\ nallocs = 0
    /\ content = [a \in Alloc |-> <<>>]
    /\ last = [op |-> "init", kind |-> "none", cat |-> "none", a |-> 0, b |-> 0,
               text |-> NoText, msg |-> ""]

\* Slots are interchangeable: a new object, parameter or temporary takes the
\* first slot in which no object lives.
Unused(s) == ~live[s] /\ \A t \in 1..(s - 1) : live[t]

\* Buffer b(n);
CreateSize(s, n, g) ==
    /\ Unused(s)
    /\ nallocs < MaxAllocs
    /\ Commit(BufferSize(World, s, n, g))
    /\ live' = [live EXCEPT ![s] = TRUE]
    /\ Record("CreateSize", "none", "none", s, 0, NoText, "")

\* Buffer b("...");
CreateText(s, str) ==
    /\ Unused(s)
    /\ nallocs < MaxAllocs
    /\ Commit(BufferText(World, s, str))
    /\ live' = [live EXCEPT ![s] = TRUE]
    /\ Record("CreateText", "none", "none", s, 0, NoText, "")

\* Buffer d(std::move(s));
MoveConstruct(d, s) ==
    /\ d # s
    /\ live[s]
    /\ Unused(d)
    /\ Commit(BufferMoveCtor(World, d, s))
    /\ live' = [live EXCEPT ![d] = TRUE]
    /\ Record("MoveConstruct", "none", "none", d, s, NoText, "")

\* d = std::move(s);
MoveAssign(d, s) ==
    /\ live[d]
    /\ live[s]
    /\ Commit(BufferMoveAssign(World, d, s))
    /\ UNCHANGED live
    /\ Record("MoveAssign", "none", "none", d, s, NoText, "")

\* end of the lifetime of the object in slot s
Destroy(s) ==
    /\ live[s]
    /\ Commit(Reclaim(BufferDtor(World, s), s))
    /\ live' = [live EXCEPT ![s] = FALSE]
    /\ Record("Destroy", "none", "none", s, 0, NoText, "")

\* ------------------------------------------------- passing a Buffer
\* value category of the argument expression: a named variable b1,
\* std::move(b1), or Buffer("...")
Cats == {"lvalue", "xvalue", "prvalue"}
\* parameter declarations: Buffer b, Buffer& b, const Buffer& b, Buffer&& b
Kinds == {"value", "lref", "clref", "rref"}

\* Buffer(const Buffer&) = delete
CopyCtorDeleted == TRUE

\* variant in which an l-value may initialise a by-value parameter
BindsCopies(kind, cat) ==
    CASE kind = "value" -> TRUE
      [] kind = "lref"  -> cat = "lvalue"
      [] kind = "clref" -> TRUE
      [] kind = "rref"  -> cat # "lvalue"

\* can a parameter of this kind be initialised from an argument of this
\* category: a by-value parameter needs the copy constructor for an l-value
\* and uses the move constructor otherwise
Binds(kind, cat) ==
    CASE kind = "value" -> IF cat = "lvalue" THEN ~CopyCtorDeleted ELSE TRUE
      [] kind = "lref"  -> cat = "lvalue"
      [] kind = "clref" -> TRUE
      [] kind = "rref"  -> cat # "lvalue"

\* the argument names the live object in slot s, or is a temporary that
\* is constructed in the first unused slot s
ArgOK(cat, s) ==
    IF cat = "prvalue" THEN Unused(s) /\ nallocs < MaxAllocs ELSE live[s]

Materialize(W, cat, s, str) ==
    IF cat = "prvalue" THEN BufferText(W, s, str) ELSE W

\* a temporary is destroyed at the end of the full expression
\* the string literal of a temporary; other arguments have none
ArgTexts(cat) == IF cat = "prvalue" THEN Texts ELSE {<<NUL>>}

Expire(W, cat, s) ==
    IF cat = "prvalue" THEN Reclaim(BufferDtor(W, s), s) ELSE W

\* the free functions: what the body does to the memory, and what it prints
send1(W, b) == [W |-> W, text |-> to_string(W, b), msg |-> ""]
send2(W, b) == [W |-> W, text |-> to_string(W, b), msg |-> ""]
\* variants of send3 and send4 that take the buffer out of the argument
\* (Buffer taken(std::move(b)); in the body)
Consume(W, b) ==
    OperatorDelete([W EXCEPT !.data[b] = NULL, !.size[b] = 0], W.data[b])
send3Consumes(W, b) == [W |-> Consume(W, b), text |-> to_string(W, b), msg |-> ""]
send3(W, b) == [W |-> W, text |-> to_string(W, b), msg |-> ""]
send4Consumes(W, b) == [W |-> Consume(W, b), text |-> to_string(W, b), msg |-> ""]
send4(W, b) == [W |-> W, text |-> to_string(W, b), msg |-> ""]

real_send_clref(W, b) ==
    [W |-> W, text |-> to_string(W, b), msg |-> "real_send (l-value ref): "]
real_send_rref(W, b) ==
    [W |-> W, text |-> to_string(W, b), msg |-> "real_send (r-value ref): "]

\* overload chosen for real_send(arg)
RealSendOverload(cat) == IF cat = "lvalue" THEN "clref" ELSE "rref"

\* void test() & and void test() &&
test_lvalue(W, b) == [W |-> W, text |-> NoText, msg |-> "test: 'this' is a l-value"]
test_rvalue(W, b) == [W |-> W, text |-> NoText, msg |-> "test: 'this' is a r-value"]

\* ref-qualifier chosen for an object expression of the given category
test(W, b, cat) == IF cat = "lvalue" THEN test_lvalue(W, b) ELSE test_rvalue(W, b)

\* template argument deduced for Type&& value
Deduce(cat) == IF cat = "lvalue" THEN "Buffer&" ELSE "Buffer"

\* variant: value.test() without std::forward, value being a named parameter
NoForward(Type) == "lvalue"

\* value category of std::forward<Type>(value)
Forward(Type) == IF Type = "Buffer&" THEN "lvalue" ELSE "xvalue"

work_buffer(W, b, cat) == test(W, b, Forward(Deduce(cat)))

\* send1(arg): the parameter is a new object.  From std::move(s) it is
\* move-constructed in slot p; from a temporary it is the temporary itself
\* (the prvalue initialises the parameter directly).  It is destroyed when
\* send1 returns.
Send1(cat, s, p, str) ==
    /\ Binds("value", cat)
    /\ ArgOK(cat, s)
    /\ IF cat = "prvalue" THEN p = s ELSE Unused(p)
    /\ LET W0 == Materialize(World, cat, s, str)
           W1 == IF cat = "prvalue" THEN W0 ELSE BufferMoveCtor(W0, p, s)
           r  == send1(W1, p)
       IN  /\ Commit(Reclaim(BufferDtor(r.W, p), p))
           /\ Record("send1", "value", cat, s, p, r.text, r.msg)
    /\ UNCHANGED live

\* a function whose parameter is a reference bound to the argument
RefCall(op, kind, cat, s, r) ==
    /\ Commit(Expire(r.W, cat, s))
    /\ Record(op, kind, cat, s, s, r.text, r.msg)
    /\ UNCHANGED live

Send2(cat, s, str) ==
    /\ Binds("lref", cat)
    /\ ArgOK(cat, s)
    /\ RefCall("send2", "lref", cat, s, send2(Materialize(World, cat, s, str), s))

Send3(cat, s, str) ==
    /\ Binds("clref", cat)
    /\ ArgOK(cat, s)
    /\ RefCall("send3", "clref", cat, s, send3(Materialize(World, cat, s, str), s))

Send4(cat, s, str) ==
    /\ Binds("rref", cat)
    /\ ArgOK(cat, s)
    /\ RefCall("send4", "rref", cat, s, send4(Materialize(World, cat, s, str), s))

RealSend(cat, s, str) ==
    /\ ArgOK(cat, s)
    /\ LET kind == RealSendOverload(cat)
           W0 == Materialize(World, cat, s, str)
       IN  /\ Binds(kind, cat)
           /\ RefCall("real_send", kind, cat, s,
                      IF kind = "clref" THEN real_send_clref(W0, s)
                                        ELSE real_send_rref(W0, s))

\* arg.test()
Test(cat, s, str) ==
    /\ ArgOK(cat, s)
    /\ RefCall("test", "this", cat, s, test(Materialize(World, cat, s, str), s, cat))

\* work_buffer(arg)
WorkBuffer(cat, s, str) ==
    /\ ArgOK(cat, s)
    /\ RefCall("work_buffer", "forwarding", cat, s,
               work_buffer(Materialize(World, cat, s, str), s, cat))

\* Buffer s(std::move(s)) on unused storage, or new (&s) Buffer(std::move(s))
\* on a live object: this == &other in the move constructor.  Unused storage
\* holds arbitrary bytes g, z.
MoveConstructSelf(s, g, z) ==
    /\ IF live[s] THEN g = data_[s] /\ z = size_[s] ELSE Unused(s)
    /\ LET W0 == [World EXCEPT !.data[s] = g, !.size[s] = z]
       IN  Commit(BufferMoveCtor(W0, s, s))
    /\ live' = [live EXCEPT ![s] = TRUE]
    /\ Record("MoveConstructSelf", "none", "none", s, s, NoText, "")

\* objects are created, moved between distinct or identical variables and
\* destroyed
Next ==
    \/ \E s \in Slot, n \in 0..MaxSize : \E g \in Garbage(n) : CreateSize(s, n, g)
    \/ \E s \in Slot, str \in Texts : CreateText(s, str)
    \/ \E d, s \in Slot : MoveConstruct(d, s)
    \/ \E d, s \in Slot : MoveAssign(d, s)
    \/ \E s \in Slot : Destroy(s)

Spec == Init /\ [][Next]_vars

\* the same, and the move constructor may be given its own object
NextAlias ==
    \/ \E s \in Slot, n \in 0..MaxSize : \E g \in Garbage(n) : CreateSize(s, n, g)
    \/ \E s \in Slot, str \in Texts : CreateText(s, str)
    \/ \E d, s \in Slot : MoveConstruct(d, s)
    \/ \E d, s \in Slot : MoveAssign(d, s)
    \/ \E s \in Slot : Destroy(s)
    \/ \E s \in Slot, g \in Ptr, z \in Sizes : MoveConstructSelf(s, g, z)

SpecAlias == Init /\ [][NextAlias]_vars

\* objects are created, passed to the free functions (send1 moving them into
\* its parameter) and destroyed
NextCalls ==
    \/ \E s \in Slot, n \in 0..MaxSize : \E g \in Garbage(n) : CreateSize(s, n, g)
    \/ \E s \in Slot, str \in Texts : CreateText(s, str)
    \/ \E s \in Slot : Destroy(s)
    \/ \E cat \in Cats, s, p \in Slot : \E str \in ArgTexts(cat) : Send1(cat, s, p, str)
    \/ \E cat \in Cats, s \in Slot : \E str \in ArgTexts(cat) : Send2(cat, s, str)
    \/ \E cat \in Cats, s \in Slot : \E str \in ArgTexts(cat) : Send3(cat, s, str)
    \/ \E cat \in Cats, s \in Slot : \E str \in ArgTexts(cat) : Send4(cat, s, str)
    \/ \E cat \in Cats, s \in Slot : \E str \in ArgTexts(cat) : RealSend(cat, s, str)
    \/ \E cat \in Cats, s \in Slot : \E str \in ArgTexts(cat) : Test(cat, s, str)
    \/ \E cat \in Cats, s \in Slot : \E str \in ArgTexts(cat) : WorkBuffer(cat, s, str)

SpecCalls == Init /\ [][NextCalls]_vars

TypeOK ==
    /\ data_ \in [Slot -> Ptr]
    /\ size_ \in [Slot -> Sizes]
    /\ live \in [Slot -> BOOLEAN]
    /\ released \in [Alloc -> Nat]
    /\ nallocs \in 0..MaxAllocs

\* ------------------------------------------------------------ properties
B1 == <<"b", "u", "f", "f", "e", "r", "1">>
B3 == <<"b", "u", "f", "f", "e", "r", "3">>

\* live objects that hold allocation a
Holders(a) == {s \in Slot : live[s] /\ data_[s] = a}

\* C1: no two live Buffer objects hold the same non-null allocation in data_.
C1_ExclusiveOwnership ==
    \A s, t \in Slot :
        (s # t /\ live[s] /\ live[t] /\ data_[s] # NULL) => data_[s] # data_[t]

C1_Witness ==
    /\ last.op = "MoveConstruct"
    /\ \E s, t \in Slot : /\ s # t
                          /\ live[s] /\ live[t]
                          /\ data_[s] # NULL /\ data_[t] # NULL

\* C2: every allocation made is either held by exactly one live object and
\* not released, or held by no live object and released exactly once (so it
\* is never released twice, never released while held, and released once all
\* objects are destroyed); destroying or assigning into an empty Buffer
\* releases nothing.
C2_Accounting ==
    \A a \in Alloc :
        IF a <= nallocs
        THEN released[a] + Cardinality(Holders(a)) = 1
        ELSE released[a] = 0 /\ Holders(a) = {}

C2_EmptyStep ==
    (last'.op \in {"Destroy", "MoveAssign"} /\ data_[last'.a] = NULL)
        => released' = released

C2_ReleasedExactlyOnce == [](C2_Accounting) /\ [][C2_EmptyStep]_vars

C2_Witness ==
    /\ last.op = "Destroy"
    /\ nallocs = 2
    /\ \A s \in Slot : ~live[s]
    /\ released[1] = 1 /\ released[2] = 1

\* C3: move-constructing h2 (slot a) from an owning h (slot b) gives h2 the
\* allocation and size of h, leaves h with data_ null and size_ 0, and
\* neither allocates nor releases.
C3_Step ==
    (last'.op = "MoveConstruct" /\ data_[last'.b] # NULL) =>
        /\ data_'[last'.a] = data_[last'.b]
        /\ size_'[last'.a] = size_[last'.b]
        /\ data_'[last'.b] = NULL
        /\ size_'[last'.b] = 0
        /\ nallocs' = nallocs
        /\ released' = released
        /\ content' = content

C3_MoveConstruct == [][C3_Step]_vars

C3_Witness ==
    /\ last.op = "MoveConstruct"
    /\ data_[last.a] # NULL /\ size_[last.a] = 7
    /\ live[last.b] /\ data_[last.b] = NULL /\ size_[last.b] = 0

\* C4: move-assigning s (slot b) into a distinct d (slot a) releases what d
\* held (nothing if d was empty), gives d the allocation and size of s, and
\* leaves s with data_ null and size_ 0.
C4_Step ==
    (last'.op = "MoveAssign" /\ last'.a # last'.b) =>
        /\ released' = IF data_[last'.a] = NULL
                       THEN released
                       ELSE [released EXCEPT ![data_[last'.a]] = @ + 1]
        /\ data_'[last'.a] = data_[last'.b]
        /\ size_'[last'.a] = size_[last'.b]
        /\ data_'[last'.b] = NULL
        /\ size_'[last'.b] = 0

C4_MoveAssign == [][C4_Step]_vars

C4_Witness ==
    /\ last.op = "MoveAssign"
    /\ last.a # last.b
    /\ data_[last.a] = 2 /\ released[1] = 1
    /\ data_[last.b] = NULL /\ size_[last.b] = 0

\* C5: move-assigning an object to itself changes neither its data_ nor its
\* size_ and releases nothing.
C5_Step ==
    (last'.op = "MoveAssign" /\ last'.a = last'.b) =>
        /\ data_' = data_
        /\ size_' = size_
        /\ released' = released

C5_SelfAssign == [][C5_Step]_vars

C5_Witness ==
    /\ last.op = "MoveAssign"
    /\ last.a = last.b
    /\ data_[last.a] # NULL /\ size_[last.a] = 7
    /\ released[data_[last.a]] = 0

\* C6 as stated: move-constructing a live object from itself leaves its
\* data_ and size_ unchanged.
C6_NoOpStep ==
    (last'.op = "MoveConstructSelf" /\ live[last'.a]) =>
        /\ data_'[last'.a] = data_[last'.a]
        /\ size_'[last'.a] = size_[last'.a]

C6_SelfConstructNoOp == [][C6_NoOpStep]_vars

\* C6 amended: move-constructing an object from itself leaves it with data_
\* null and size_ 0 and neither allocates nor releases; an allocation it
\* held stays unreleased.
C6_Step ==
    last'.op = "MoveConstructSelf" =>
        /\ data_'[last'.a] = NULL
        /\ size_'[last'.a] = 0
        /\ live'[last'.a]
        /\ nallocs' = nallocs
        /\ released' = released

C6_SelfConstructEmpties == [][C6_Step]_vars

C6_Witness ==
    /\ last.op = "MoveConstructSelf"
    /\ live[last.a] /\ data_[last.a] = NULL
    /\ nallocs = 1 /\ released[1] = 0 /\ Holders(1) = {}

\* C7 as stated: after send4(std::move(h)), h created from "buffer3", h is
\* empty.
C7_Send4Empties ==
    (last.op = "send4" /\ last.cat = "xvalue" /\ last.text = B3)
        => (data_[last.a] = NULL /\ size_[last.a] = 0)

\* C7 amended: after send4(std::move(h)), h created from "buffer3", the call
\* has printed "buffer3" and h still holds its allocation, unreleased, with
\* size 7 and text "buffer3".
C7_Step ==
    (last'.op = "send4" /\ last'.cat = "xvalue" /\ to_string(World, last'.a) = B3) =>
        /\ last'.text = B3
        /\ data_'[last'.a] = data_[last'.a] /\ data_'[last'.a] # NULL
        /\ size_'[last'.a] = 7
        /\ live'[last'.a]
        /\ released' = released
        /\ content' = content

C7_Send4Keeps == [][C7_Step]_vars

C7_Witness ==
    /\ last.op = "send4" /\ last.cat = "xvalue" /\ last.text = B3
    /\ live[last.a] /\ data_[last.a] # NULL /\ size_[last.a] = 7
    /\ to_string(World, last.a) = B3

\* C8: send2, send3 and real_send(const Buffer&), given a named object or
\* (send3) std::move of a named object, leave the argument's allocation,
\* size and rendered text as they were, print that text, and release
\* nothing.
C8_Step ==
    (/\ \/ last'.op \in {"send2", "send3"}
        \/ last'.op = "real_send" /\ last'.kind = "clref"
     /\ last'.cat \in {"lvalue", "xvalue"}) =>
        /\ data_'[last'.a] = data_[last'.a]
        /\ size_'[last'.a] = size_[last'.a]
        /\ live'[last'.a]
        /\ released' = released
        /\ last'.text = to_string(World, last'.a)
        /\ [i \in 1..size_'[last'.a] |-> content'[data_'[last'.a]][i]]
               = to_string(World, last'.a)

C8_ReferenceCalls == [][C8_Step]_vars

C8_Witness ==
    /\ last.op = "send3" /\ last.cat = "xvalue" /\ last.text = B1
    /\ live[last.a] /\ data_[last.a] # NULL /\ size_[last.a] = 7
    /\ to_string(World, last.a) = B1

\* C9: a by-value or r-value-reference parameter accepts exactly the
\* expiring arguments (std::move of a variable, a temporary), a mutable
\* reference exactly the named variables, a const reference everything; no
\* other call happens, and no live object holds an allocation that a copy's
\* destructor has released.
Expiring(cat) == cat \in {"xvalue", "prvalue"}

C9_Table(kind, cat) ==
    CASE kind = "value" -> Expiring(cat)
      [] kind = "lref"  -> cat = "lvalue"
      [] kind = "clref" -> TRUE
      [] kind = "rref"  -> Expiring(cat)

C9_CallLegality ==
    /\ \A kind \in Kinds, cat \in Cats : Binds(kind, cat) <=> C9_Table(kind, cat)
    /\ last.op \in {"send1", "send2", "send3", "send4", "real_send"}
           => C9_Table(last.kind, last.cat)
    /\ \A s \in Slot : (live[s] /\ data_[s] # NULL) => released[data_[s]] = 0

C9_Witness ==
    /\ last.op = "send1" /\ last.cat = "xvalue" /\ last.text = B1
    /\ live[last.a] /\ data_[last.a] = NULL
    /\ released[1] = 1

\* C10: work_buffer(arg) reports the l-value overload of test() for a named
\* object and the r-value overload for std::move of one or for a temporary,
\* which is what arg.test() reports, and leaves the ownership of a named
\* argument as it was.
C10_Step ==
    last'.op = "work_buffer" =>
        /\ last'.msg = IF last'.cat = "lvalue"
                       THEN "test: 'this' is a l-value"
                       ELSE "test: 'this' is a r-value"
        /\ last'.msg = test(World, last'.a, last'.cat).msg
        /\ released' = IF last'.cat = "prvalue"
                       THEN [released EXCEPT ![nallocs'] = 1]
                       ELSE released
        /\ last'.cat # "prvalue" =>
              /\ data_'[last'.a] = data_[last'.a]
              /\ size_'[last'.a] = size_[last'.a]
              /\ live'[last'.a]

C10_Forwarding == [][C10_Step]_vars

C10_Witness ==
    /\ last.op = "work_buffer" /\ last.cat = "xvalue"
    /\ last.msg = "test: 'this' is a r-value"
    /\ live[last.a] /\ data_[last.a] # NULL
====
